---- MODULE Spec2Model ----
(***************************************************************************)
(* A model of postcss-loader: the loader pipeline (src/src/index.js and   *)
(* the earlier loader src/unnamed/part_001) and its utilities             *)
(* (src/unnamed/part_000): config resolution, runtime context, plugin     *)
(* normalization and source-map path rebasing.                            *)
(***************************************************************************)
EXTENDS Integers, Sequences, FiniteSets, TLC

\* the plugin packages a spec names
PluginNames == {"a", "b"}

\* the two loaders: "legacy" is src/unnamed/part_001, "main" is src/src/index.js
Variants == {"legacy", "main"}

VARIABLES
  processEnv,   \* process.env.NODE_ENV, shared by every invocation
  pc,           \* per invocation: position in loader / loadConfig
  variant,      \* per invocation: "main" (src/src/index.js), "legacy" (part_001)
  asyncCalled,  \* per invocation: this.async() has been called
  cb,           \* per invocation: the calls made to the async callback, in order
  rejected,     \* per invocation: error that escaped the async function, or "none"
  calls,        \* per invocation: bundler capability calls, in order
  cfgOutcome,   \* per invocation: what stat / cosmiconfig answered
  loadedConfig, \* per invocation: value returned by loadConfig
  ctxEnv,       \* per invocation: `env` of the context handed to loadConfig
  envRead,      \* per invocation: process.env.NODE_ENV as read by createContext
  patchedEnv,   \* per invocation: `env` of the context createContext returned
  messages,     \* per invocation: result.messages of the engine
  warnings,     \* per invocation: number of result.warnings()
  plugins,         \* getArrayPlugins: the plugin spec
  disabledPlugins, \* getArrayPlugins: the disabledPlugins array, or undefined
  resolver,        \* what require(name) yields for each plugin name
  normalized,      \* getArrayPlugins: its outcome
  phase,           \* getArrayPlugins: "call" or "returned"
  entryPath,    \* path rebasing: the source-map entry path (`file`)
  baseDir,      \* path rebasing: the base directory (`from`)
  targetFile,   \* path rebasing: the target file (`to`)
  cwd,          \* path rebasing: process.cwd()
  relativePath, \* path rebasing: result of getSourceMapRelativePath
  absolutePath, \* path rebasing: result of getSourceMapAbsolutePath
  step          \* path rebasing: "relative", "absolute" or "done"

loaderVars == <<pc, variant, asyncCalled, cb, rejected, calls, cfgOutcome,
                loadedConfig, ctxEnv, envRead, patchedEnv, messages, warnings>>

normVars == <<plugins, disabledPlugins, resolver, normalized, phase>>

pathVars == <<entryPath, baseDir, targetFile, cwd, relativePath, absolutePath, step>>

vars == <<processEnv, loaderVars, normVars, pathVars>>

-----------------------------------------------------------------------------
\* Bounds of the model.

\* Number of concurrent loadConfig invocations in SpecEnv.
NumInv == 2

\* Longest result.messages the engine returns.
MaxMsgs == 2

Procs == 1..NumInv

-----------------------------------------------------------------------------
\* process.env.NODE_ENV and RuntimeContext

\* the context object has no `env` key at all
NoKey == "<no key>"

Undefined == "undefined"

NotCalled == "<not called>"

\* values process.env.NODE_ENV can hold before any invocation
ProcessEnvValues == {Undefined, "production", "test"}

\* `env` of a caller-supplied context
CtxEnvValues == {NoKey, Undefined, "", "production", "test"}

\* JavaScript `!v` for the values above
Falsy(v) == v \in {Undefined, ""}

\* { cwd: process.cwd(), env: process.env.NODE_ENV, ...context }
\* if (!result.env) process.env.NODE_ENV = 'development'; return result
createContext(contextEnv, nodeEnv) ==
  LET resultEnv == IF contextEnv = NoKey THEN nodeEnv ELSE contextEnv
  IN  [env        |-> resultEnv,
       processEnv |-> IF Falsy(resultEnv) THEN "development" ELSE nodeEnv]

-----------------------------------------------------------------------------
\* Bundler capability calls and engine messages

ConfigFile == "postcss.config.js"
ErrorFile == "broken.css"

Call(cap, file, content, sourceMap, info) ==
  [cap |-> cap, file |-> file, content |-> content, sourceMap |-> sourceMap,
   info |-> info]

AddDependency(file) == Call("addDependency", file, "-", "-", "-")

Msg(type, file, content) ==
  [type |-> type, file |-> file, content |-> content, sourceMap |-> "map1",
   info |-> "info1"]

DependencyTypes ==
  {"dependency", "build-dependency", "missing-dependency", "context-dependency"}

\* messages the engine can put in result.messages
Messages ==
  {Msg(t, "dep.css", Undefined) : t \in DependencyTypes}
  \cup {Msg("asset", f, c) : f \in {Undefined, "out.png"},
                             c \in {Undefined, "", "data"}}
  \cup {Msg("warning", "dep.css", Undefined)}

RECURSIVE SeqsUpTo(_, _)
SeqsUpTo(S, n) ==
  IF n = 0 THEN {<<>>}
  ELSE LET shorter == SeqsUpTo(S, n - 1)
       IN  shorter \cup {Append(s, x) : s \in shorter, x \in S}

\* a dispatch that emits an asset as soon as it has content
dispatchMessageNewNoFileTest(message) ==
  CASE message.type = "dependency" ->
         <<Call("addDependency", message.file, "-", "-", "-")>>
    [] message.type = "build-dependency" ->
         <<Call("addBuildDependency", message.file, "-", "-", "-")>>
    [] message.type = "missing-dependency" ->
         <<Call("addMissingDependency", message.file, "-", "-", "-")>>
    [] message.type = "context-dependency" ->
         <<Call("addContextDependency", message.file, "-", "-", "-")>>
    [] message.type = "asset" ->
         IF ~Falsy(message.content)
         THEN <<Call("emitFile", message.file, message.content,
                     message.sourceMap, message.info)>>
         ELSE <<>>
    [] OTHER -> <<>>

\* the body of `for (const message of result.messages) switch (message.type)`
\* of src/src/index.js, for one message
dispatchMessageNew(message) ==
  CASE message.type = "dependency" ->
         <<Call("addDependency", message.file, "-", "-", "-")>>
    [] message.type = "build-dependency" ->
         <<Call("addBuildDependency", message.file, "-", "-", "-")>>
    [] message.type = "missing-dependency" ->
         <<Call("addMissingDependency", message.file, "-", "-", "-")>>
    [] message.type = "context-dependency" ->
         <<Call("addContextDependency", message.file, "-", "-", "-")>>
    [] message.type = "asset" ->
         IF ~Falsy(message.content) /\ ~Falsy(message.file)
         THEN <<Call("emitFile", message.file, message.content,
                     message.sourceMap, message.info)>>
         ELSE <<>>
    [] OTHER -> <<>>

\* the body of `messages.forEach((msg) => ...)` of the earlier loader
dispatchMessageOld(message) ==
  IF message.type = "dependency"
  THEN <<Call("addDependency", message.file, "-", "-", "-")>>
  ELSE <<>>

RECURSIVE dispatchMessages(_, _)
dispatchMessages(msgs, v) ==
  IF msgs = <<>> THEN <<>>
  ELSE (IF v = "main" THEN dispatchMessageNew(Head(msgs))
        ELSE dispatchMessageOld(Head(msgs)))
       \o dispatchMessages(Tail(msgs), v)

EmitWarnings(n) == [k \in 1..n |-> Call("emitWarning", "-", "-", "-", "-")]

-----------------------------------------------------------------------------
\* loadConfig (src/unnamed/part_000), as the earlier loader calls it; the
\* loadConfig the loader of src/src/index.js imports is taken to be this same
\* resolver

EmptyConfig == [kind |-> "empty", env |-> "-", file |-> "-"]
NoConfig == [kind |-> "undefined", env |-> "-", file |-> "-"]

\* await stat(loaderContext.fs, searchPath)
LoadConfigStat(i) ==
  /\ pc[i] = "stat"
  /\ \E st \in {"file", "directory", "fail"} :
       IF st = "fail"
       THEN \* throw new Error(`No PostCSS Config found in: ${searchPath}`)
            /\ cfgOutcome' = [cfgOutcome EXCEPT ![i] = "statFailed"]
            /\ rejected' = [rejected EXCEPT ![i] = "NoConfigFound"]
            /\ pc' = [pc EXCEPT ![i] = "configThrown"]
       ELSE /\ cfgOutcome' = [cfgOutcome EXCEPT ![i] = st]
            /\ pc' = [pc EXCEPT ![i] = "search"]
            /\ UNCHANGED rejected
  /\ UNCHANGED <<processEnv, variant, asyncCalled, cb, calls, loadedConfig,
                 ctxEnv, envRead, patchedEnv, messages, warnings,
                 normVars, pathVars>>

\* createContext was not reached
NoContext(nodeEnv) == [env |-> NotCalled, processEnv |-> nodeEnv]

\* loadConfig after `if (!result) return {}`: createContext, the merge of the
\* exported config with the context, result.filepath
loadConfigFound(answer, contextEnv, nodeEnv) ==
  LET patchedContext == createContext(contextEnv, nodeEnv)
      file == IF answer.filepath THEN ConfigFile ELSE "-"
  IN  IF answer.kind = "throwing function"
      THEN \* resultConfig(patchedContext) throws
           [status |-> "throw", error |-> "ConfigLoadError",
            config |-> NoConfig, called |-> TRUE, context |-> patchedContext,
            deps |-> <<>>]
      ELSE
      [status |-> "return", error |-> "none",
       config |-> IF answer.kind = "function"
                  THEN [kind |-> "function result", env |-> "-", file |-> file]
                  ELSE [kind |-> "merged", env |-> patchedContext.env,
                        file |-> file],
       called |-> TRUE, context |-> patchedContext,
       deps |-> IF answer.filepath THEN <<AddDependency(ConfigFile)>>
                ELSE <<>>]

\* a loadConfig that treats a missing result as an error
loadConfigResultNullThrows(answer, contextEnv, nodeEnv) ==
  CASE answer.kind \in {"throws", "null"} ->
         [status |-> "throw",
          error |-> IF answer.kind = "null" THEN "NoConfigFound"
                    ELSE "ConfigLoadError",
          config |-> NoConfig,
          called |-> FALSE, context |-> NoContext(nodeEnv), deps |-> <<>>]
    [] OTHER -> loadConfigFound(answer, contextEnv, nodeEnv)

\* what loadConfig does once explorer.load / explorer.search has answered:
\* answer.kind is "throws", "null", "object", "function" or
\* "throwing function"
loadConfigResult(answer, contextEnv, nodeEnv) ==
  CASE answer.kind = "throws" ->
         [status |-> "throw", error |-> "ConfigLoadError", config |-> NoConfig,
          called |-> FALSE, context |-> NoContext(nodeEnv), deps |-> <<>>]
    [] answer.kind = "null" ->
         [status |-> "return", error |-> "none", config |-> EmptyConfig,
          called |-> FALSE, context |-> NoContext(nodeEnv), deps |-> <<>>]
    [] OTHER -> loadConfigFound(answer, contextEnv, nodeEnv)

ExplorerAnswers ==
  {[kind |-> k, filepath |-> f] : k \in {"throws", "null"}, f \in {FALSE}}
  \cup {[kind |-> k, filepath |-> f] :
          k \in {"object", "function", "throwing function"}, f \in BOOLEAN}

\* await explorer.load(searchPath) / explorer.search(searchPath), then the
\* rest of loadConfig
LoadConfigSearch(i) ==
  /\ pc[i] = "search"
  /\ \E answer \in ExplorerAnswers :
       LET r == loadConfigResult(answer, ctxEnv[i], processEnv)
       IN  /\ cfgOutcome' = [cfgOutcome EXCEPT ![i] =
                               CASE answer.kind = "throws" -> "loadFailed"
                                 [] answer.kind = "null" -> "notFound"
                                 [] answer.kind = "throwing function" ->
                                      "loadFailed"
                                 [] OTHER -> "found"]
           /\ loadedConfig' = [loadedConfig EXCEPT ![i] = r.config]
           /\ rejected' = [rejected EXCEPT ![i] = r.error]
           /\ calls' = [calls EXCEPT ![i] = @ \o r.deps]
           /\ IF r.called
              THEN /\ processEnv' = r.context.processEnv
                   /\ envRead' = [envRead EXCEPT ![i] = processEnv]
                   /\ patchedEnv' = [patchedEnv EXCEPT ![i] = r.context.env]
              ELSE UNCHANGED <<processEnv, envRead, patchedEnv>>
           /\ pc' = [pc EXCEPT ![i] = IF r.status = "throw" THEN "configThrown"
                                      ELSE "configReturned"]
  /\ UNCHANGED <<variant, asyncCalled, cb, ctxEnv, messages, warnings,
                 normVars, pathVars>>

-----------------------------------------------------------------------------
\* loader

CallbackError(error) == [err |-> error, result |-> "none"]
CallbackSuccess == [err |-> "null", result |-> "css, map, meta"]

\* getOptions / validateOptions, this.async(), the config option
LoaderStart(i) ==
  /\ pc[i] = "start"
  /\ \E valid \in BOOLEAN, configOption \in BOOLEAN :
       IF ~valid
       THEN \* schema validation throws before this.async()
            /\ rejected' = [rejected EXCEPT ![i] = "ValidationError"]
            /\ pc' = [pc EXCEPT ![i] = "done"]
            /\ UNCHANGED <<asyncCalled, cfgOutcome>>
       ELSE /\ asyncCalled' = [asyncCalled EXCEPT ![i] = TRUE]
            /\ IF configOption
               THEN /\ pc' = [pc EXCEPT ![i] = "stat"]
                    /\ UNCHANGED cfgOutcome
               ELSE /\ pc' = [pc EXCEPT ![i] = "configReturned"]
                    /\ cfgOutcome' = [cfgOutcome EXCEPT ![i] = "skipped"]
            /\ UNCHANGED rejected
  /\ UNCHANGED <<processEnv, variant, cb, calls, loadedConfig, ctxEnv,
                 envRead, patchedEnv, messages, warnings,
                 normVars, pathVars>>

\* catch (error) { callback(error); return; } around await loadConfig(...)
LoaderConfigFailed(i) ==
  /\ pc[i] = "configThrown"
  /\ asyncCalled[i]
  /\ cb' = [cb EXCEPT ![i] = Append(@, CallbackError(rejected[i]))]
  /\ rejected' = [rejected EXCEPT ![i] = "none"]
  /\ pc' = [pc EXCEPT ![i] = "done"]
  /\ UNCHANGED <<processEnv, variant, asyncCalled, calls, cfgOutcome,
                 loadedConfig, ctxEnv, envRead, patchedEnv, messages, warnings,
                 normVars, pathVars>>

\* errors raised between the config step and the engine call of the earlier
\* loader, none of them inside a try block
OldPrepareErrors ==
  {"ParserLoadError", "SyntaxLoadError", "StringifierLoadError", "ExecError",
   "SourceMapParseError", "PluginLoadError", "PluginShapeError"}

\* errors raised by getPostcssOptions
OptionsErrors ==
  {"PluginLoadError", "PluginShapeError", "ParserLoadError", "SyntaxLoadError",
   "StringifierLoadError"}

\* errors raised between getPostcssOptions and the engine call
NewPrepareErrors == {"SourceMapParseError", "ExecError"}

\* earlier loader: mergedOptions ... createPostCssPlugins(plugins, file)
\* current loader: await getPostcssOptions(this, loadedConfig, postcssOptions)
LoaderOptions(i) ==
  /\ pc[i] = "configReturned"
  /\ asyncCalled[i]
  /\ \E error \in {"none"} \cup
                  (IF variant[i] = "legacy" THEN OldPrepareErrors
                   ELSE OptionsErrors) :
       IF error = "none"
       THEN /\ pc' = [pc EXCEPT ![i] = IF variant[i] = "legacy" THEN "engine"
                                       ELSE "options"]
            /\ UNCHANGED rejected
       ELSE /\ rejected' = [rejected EXCEPT ![i] = error]
            /\ pc' = [pc EXCEPT ![i] = "done"]
  /\ UNCHANGED <<processEnv, variant, asyncCalled, cb, calls, cfgOutcome,
                 loadedConfig, ctxEnv, envRead, patchedEnv, messages, warnings,
                 normVars, pathVars>>

\* current loader: useSourceMap, normalizeSourceMap, meta.ast, exec
LoaderPrepare(i) ==
  /\ pc[i] = "options"
  /\ \E error \in {"none"} \cup NewPrepareErrors :
       IF error = "none"
       THEN /\ pc' = [pc EXCEPT ![i] = "engine"]
            /\ UNCHANGED rejected
       ELSE /\ rejected' = [rejected EXCEPT ![i] = error]
            /\ pc' = [pc EXCEPT ![i] = "done"]
  /\ UNCHANGED <<processEnv, variant, asyncCalled, cb, calls, cfgOutcome,
                 loadedConfig, ctxEnv, envRead, patchedEnv, messages, warnings,
                 normVars, pathVars>>

\* catch (error) around await postcss(plugins).process(...)
LoaderEngineFailed(i) ==
  /\ pc[i] = "engine"
  /\ \E name \in {"CssSyntaxError", "Error"}, hasFile \in BOOLEAN :
       /\ calls' = [calls EXCEPT ![i] =
                      IF hasFile THEN Append(@, AddDependency(ErrorFile))
                      ELSE @]
       /\ cb' = [cb EXCEPT ![i] =
                   Append(@, CallbackError(IF name = "CssSyntaxError"
                                           THEN "SyntaxError" ELSE "Error"))]
  /\ pc' = [pc EXCEPT ![i] = "done"]
  /\ UNCHANGED <<processEnv, variant, asyncCalled, rejected, cfgOutcome,
                 loadedConfig, ctxEnv, envRead, patchedEnv, messages, warnings,
                 normVars, pathVars>>

\* the engine resolved: warnings, messages, map, callback(null, css, map, meta)
LoaderEngineDone(i) ==
  /\ pc[i] = "engine"
  /\ \E n \in 0..1, msgs \in SeqsUpTo(Messages, MaxMsgs) :
       /\ warnings' = [warnings EXCEPT ![i] = n]
       /\ messages' = [messages EXCEPT ![i] = msgs]
       /\ calls' = [calls EXCEPT ![i] =
                      @ \o EmitWarnings(n) \o dispatchMessages(msgs, variant[i])]
  /\ cb' = [cb EXCEPT ![i] = Append(@, CallbackSuccess)]
  /\ pc' = [pc EXCEPT ![i] = "done"]
  /\ UNCHANGED <<processEnv, variant, asyncCalled, rejected, cfgOutcome,
                 loadedConfig, ctxEnv, envRead, patchedEnv,
                 normVars, pathVars>>

-----------------------------------------------------------------------------
\* JavaScript values of plugin specs

Str(s) == [k |-> "string", s |-> s]
Arr(items) == [k |-> "array", items |-> items]
\* an object with its own enumerable entries, in Object.entries order
Obj(ents) == [k |-> "object", ents |-> ents]
False == [k |-> "false"]
Undef == [k |-> "undefined"]
Null == [k |-> "null"]
Num == [k |-> "number"]
EmptyObj == Obj(<<>>)
\* an options payload { opt: 1 }
Options1 == Obj(<<<<"opt", Num>>>>)

Fn(tagged, fn, name, arg) ==
  [k |-> "function", tagged |-> tagged, fn |-> fn, name |-> name, arg |-> arg]
\* a plugin built by the engine for `name` with `opts`: its postcssVersion is
\* the engine's version
Instance(name, opts) == Fn(TRUE, "instance", name, opts)
\* the creator a plugin package exports: creator(opts) builds the plugin
Creator(name) == Fn(FALSE, "creator", name, Undef)
\* a plain function that returns `ret` whatever it is called with
Factory(ret) == Fn(FALSE, "factory", "", ret)

\* require(name) found no module
Missing == [k |-> "missing"]

IsFalsy(v) ==
  v.k \in {"false", "undefined", "null"} \/ (v.k = "string" /\ v.s = "")

\* f(arg): ok is FALSE when the call throws
CallFn(f, arg) ==
  CASE f.k # "function" -> [ok |-> FALSE, v |-> Undef]
    [] f.fn = "creator" -> [ok |-> TRUE, v |-> Instance(f.name, arg)]
    [] f.fn = "factory" -> [ok |-> TRUE, v |-> f.arg]
    [] OTHER -> [ok |-> FALSE, v |-> Undef]

\* Object.keys(v).length, for a v that is neither null nor undefined
KeysLength(v) ==
  CASE v.k = "object" -> Len(v.ents)
    [] v.k = "array" -> Len(v.items)
    [] v.k = "string" -> (IF v.s = "" THEN 0 ELSE 1)
    [] v.k = "function" ->
         (IF v.tagged THEN 2 ELSE IF v.fn = "creator" THEN 1 ELSE 0)
    [] OTHER -> 0

\* the value of own property `key` of v, Undef when there is none
Property(v, key) ==
  IF v.k = "object" /\ \E n \in 1..Len(v.ents) : v.ents[n][1] = key
  THEN v.ents[CHOOSE n \in 1..Len(v.ents) : v.ents[n][1] = key][2]
  ELSE Undef

\* the property key a value turns into in { [name]: options }
ToPropertyKey(v) ==
  CASE v.k = "string" -> v.s
    [] v.k = "undefined" -> "undefined"
    [] v.k = "null" -> "null"
    [] v.k = "false" -> "false"
    [] OTHER -> "[object]"

-----------------------------------------------------------------------------
\* PluginLoader (src/unnamed/part_000)

\* require(plugin)
Require(plugin) ==
  IF plugin \in DOMAIN resolver THEN resolver[plugin] ELSE Missing

NoOptions(options) ==
  options.k \in {"null", "undefined"} \/ KeysLength(options) = 0

\* a load that always invokes the resolved value with the options
loadAlwaysInvokes(plugin, options) ==
  LET module == Require(plugin)
  IN  IF module.k = "missing"
      THEN [ok |-> FALSE, v |-> Undef, required |-> FALSE]
      ELSE LET r == CallFn(module, options)
           IN  [ok |-> r.ok, v |-> r.v, required |-> TRUE]

\* load(plugin, options, file): ok is FALSE for
\* "Loading PostCSS Plugin failed"
load(plugin, options) ==
  LET module == Require(plugin)
  IN  IF module.k = "missing"
      THEN [ok |-> FALSE, v |-> Undef, required |-> FALSE]
      ELSE IF NoOptions(options)
      THEN [ok |-> TRUE, v |-> module, required |-> TRUE]
      ELSE LET r == CallFn(module, options)
           IN  [ok |-> r.ok, v |-> r.v, required |-> TRUE]

\* plugins.map((plugin) => load(pluginName, pluginOptions, file)), which
\* stops at the first load that throws; `loaded` lists the names required
RECURSIVE loadAll(_, _, _)
loadAll(ents, values, loaded) ==
  IF ents = <<>>
  THEN [ok |-> TRUE, err |-> "none", values |-> values, loaded |-> loaded]
  ELSE LET r == load(Head(ents)[1], Head(ents)[2])
           now == IF r.required THEN Append(loaded, Head(ents)[1]) ELSE loaded
       IN  IF r.ok THEN loadAll(Tail(ents), Append(values, r.v), now)
           ELSE [ok |-> FALSE, err |-> "PluginLoadError", values |-> <<>>,
                 loaded |-> now]

\* the shape test of loadPlugins on one loaded value: "ok", "invalid" for
\* `Invalid PostCSS Plugin found`, "TypeError" when reading .default throws
ShapeOf(loadedPlugin) ==
  IF loadedPlugin.k \in {"undefined", "null"} THEN "TypeError"
  ELSE LET dflt == Property(loadedPlugin, "default")
           plugin == IF IsFalsy(dflt) THEN loadedPlugin ELSE dflt
       IN  IF \/ plugin.k = "function"
              \/ plugin.k = "object" /\ Property(plugin, "plugins").k = "array"
           THEN "ok"
           ELSE "invalid"

\* loadPlugins(pluginEntry, file)
loadPlugins(pluginEntry, loaded) ==
  LET Enabled(entry) == entry[2].k # "false"
      r == loadAll(SelectSeq(pluginEntry, Enabled), <<>>, loaded)
      bad == {n \in 1..Len(r.values) : ShapeOf(r.values[n]) # "ok"}
  IN  IF ~r.ok \/ bad = {} THEN r
      ELSE LET first == CHOOSE n \in bad : \A m \in bad : n <= m
           IN  [ok |-> FALSE,
                err |-> IF ShapeOf(r.values[first]) = "invalid"
                        THEN "PluginShapeError" ELSE "TypeError",
                values |-> <<>>, loaded |-> r.loaded]

-----------------------------------------------------------------------------
\* PluginSpecNormalizer (src/unnamed/part_000)

\* the state a normalization threads through: the names required so far and
\* the disabledPlugins array (given is FALSE when the argument is undefined)
Returned(out, st) == [ok |-> TRUE, err |-> "none", out |-> out, st |-> st]
Thrown(err, st) == [ok |-> FALSE, err |-> err, out |-> <<>>, st |-> st]

isPostcssPlugin(plugin) == plugin.k = "function" /\ plugin.tagged

\* getPlugin(pluginEntry)
getPlugin(pluginEntry, st) ==
  IF IsFalsy(pluginEntry) THEN Returned(<<>>, st)
  ELSE IF isPostcssPlugin(pluginEntry) THEN Returned(<<pluginEntry>>, st)
  ELSE LET result == CallFn(pluginEntry, Undef)
       IN  IF ~result.ok THEN Thrown("TypeError", st)
           ELSE IF result.v.k = "array" THEN Returned(result.v.items, st)
           ELSE Returned(<<result.v>>, st)

\* the element of an array spec as the reduce callback rewrites it
normalizedPlugin(plugin) ==
  CASE plugin.k = "array" ->
         LET name == IF Len(plugin.items) >= 1 THEN plugin.items[1] ELSE Undef
             second == IF Len(plugin.items) >= 2 THEN plugin.items[2]
                       ELSE Undef
             options == IF IsFalsy(second) THEN EmptyObj ELSE second
         IN  Obj(<<<<ToPropertyKey(name), options>>>>)
    [] plugin.k = "string" -> Obj(<<<<plugin.s, EmptyObj>>>>)
    [] OTHER -> plugin

\* the names of the entries whose value is false, in entry order
RECURSIVE DisabledNames(_)
DisabledNames(ents) ==
  IF ents = <<>> THEN <<>>
  ELSE (IF Head(ents)[2].k = "false" THEN <<Head(ents)[1]>> ELSE <<>>)
       \o DisabledNames(Tail(ents))

\* pluginsProcessing(plugins, file, disabledPlugins); depth is the room left
\* on the call stack, and running out of it is a RangeError
RECURSIVE pluginsProcessing(_, _, _)
RECURSIVE reducePlugins(_, _, _, _)
reducePlugins(items, accumulator, st, depth) ==
  IF items = <<>> THEN Returned(accumulator, st)
  ELSE LET r == pluginsProcessing(normalizedPlugin(Head(items)), st, depth - 1)
       IN  IF ~r.ok THEN r
           ELSE reducePlugins(Tail(items), accumulator \o r.out, r.st, depth)

pluginsProcessing(spec, st, depth) ==
  IF depth <= 0 THEN Thrown("RangeError", st)
  ELSE IF spec.k = "array" THEN reducePlugins(spec.items, <<>>, st, depth)
  ELSE IF spec.k = "null" THEN Thrown("TypeError", st)
  ELSE IF spec.k = "object" THEN
    IF Len(spec.ents) = 0 THEN Returned(<<>>, st)
    ELSE LET Enabled(entry) == entry[2].k # "false"
             pushed == IF st.given
                       THEN [st EXCEPT !.disabled = @ \o DisabledNames(spec.ents)]
                       ELSE st
             l == loadPlugins(SelectSeq(spec.ents, Enabled), pushed.loaded)
             after == [pushed EXCEPT !.loaded = l.loaded]
         IN  IF ~l.ok THEN Thrown(l.err, after)
             ELSE pluginsProcessing(Arr(l.values), after, depth - 1)
  ELSE getPlugin(spec, st)

\* the loaderContext handed to a function spec
LoaderContext == Obj(<<<<"resourcePath", Str("style.css")>>>>)

\* getArrayPlugins(plugins, file, disabledPlugins, loaderContext)
getArrayPlugins(spec, st, depth) ==
  IF spec.k = "function"
  THEN IF isPostcssPlugin(spec) THEN Returned(<<spec>>, st)
       ELSE LET r == CallFn(spec, LoaderContext)
            IN  IF ~r.ok THEN Thrown("TypeError", st)
                ELSE pluginsProcessing(r.v, st, depth)
  ELSE pluginsProcessing(spec, st, depth)

-----------------------------------------------------------------------------
\* Plugin specs and resolvers the normalizer is run on

\* Longest array spec.
MaxList == 2

\* Call-stack room of one normalization.
MaxDepth == 8

OptionValues == {False, Undef, Null, EmptyObj, Options1}

\* NamedMaps of one or two entries
NamedMaps ==
  {Obj(<<<<n, o>>>>) : n \in PluginNames, o \in OptionValues}
  \cup UNION {{Obj(<<<<n, o>>, <<m, q>>>>) :
                  m \in PluginNames \ {n},
                  o \in OptionValues, q \in OptionValues} : n \in PluginNames}

\* the elements of an array spec: names, [name, options] pairs, small maps,
\* instances, creators and plain functions
ListElements ==
  {Str(n) : n \in PluginNames}
  \cup {Arr(<<Str(n), o>>) : n \in PluginNames, o \in {False, EmptyObj, Options1}}
  \cup {Obj(<<<<n, o>>>>) : n \in PluginNames, o \in {False, Options1}}
  \cup {Instance("a", Undef), Creator("b"), Factory(Str("b"))}

PluginSpecs ==
  {Arr(items) : items \in SeqsUpTo(ListElements, MaxList)}
  \cup NamedMaps
  \cup {EmptyObj, Undef, Instance("a", Undef), Creator("a"),
        Factory(Arr(<<Str("a")>>)), Factory(Obj(<<<<"a", Options1>>>>))}

\* what require(name) yields; a name outside the domain is not installed
Resolvers ==
  { \* packages exporting creators
    ("a" :> Creator("a") @@ "b" :> Creator("b")),
    \* a ready instance, and a function returning two instances
    ("a" :> Instance("a", Undef)
       @@ "b" :> Factory(Arr(<<Instance("b1", Undef), Instance("b2", Undef)>>))),
    \* a function returning a name, and a plain function returning nothing
    ("a" :> Factory(Str("b")) @@ "b" :> Factory(Undef)),
    \* a module whose `a` entry names itself
    ("a" :> Obj(<<<<"plugins", Arr(<<>>)>>, <<"a", EmptyObj>>>>)
       @@ "b" :> Creator("b") @@ "plugins" :> Instance("plugins", Undef)),
    \* a module that is no plugin, and a default export
    ("a" :> Num @@ "b" :> Obj(<<<<"default", Creator("b")>>>>)) }

DisabledArguments ==
  {[given |-> FALSE, names |-> <<>>], [given |-> TRUE, names |-> <<>>],
   [given |-> TRUE, names |-> <<"a">>]}

InitialState(disabled) ==
  [loaded |-> <<>>, given |-> disabled.given, disabled |-> disabled.names]

\* one top-level call of getArrayPlugins
GetArrayPlugins ==
  /\ phase = "call"
  /\ LET r == getArrayPlugins(plugins, InitialState(disabledPlugins), MaxDepth)
     IN  /\ normalized' = [ok |-> r.ok, err |-> r.err, out |-> r.out,
                           loaded |-> r.st.loaded,
                           disabledAtCall |-> disabledPlugins]
         /\ disabledPlugins' = [disabledPlugins EXCEPT !.names = r.st.disabled]
  /\ phase' = "returned"
  /\ UNCHANGED <<plugins, resolver, processEnv, loaderVars, pathVars>>

-----------------------------------------------------------------------------
\* Paths: strings as sequences of characters, with Node's POSIX `path`

\* Longest source-map entry path.
MaxPathLen == 4

PathChars == {"/", ".", "a", "<", ":"}

WordChars == {"a"}

\* path.sep of the platform modelled
Sep == "/"

\* the segments between the slashes of a path, empty ones dropped
RECURSIVE Segments(_, _)
Segments(p, current) ==
  IF p = <<>> THEN (IF current = <<>> THEN <<>> ELSE <<current>>)
  ELSE IF Head(p) = "/"
       THEN (IF current = <<>> THEN <<>> ELSE <<current>>)
            \o Segments(Tail(p), <<>>)
       ELSE Segments(Tail(p), Append(current, Head(p)))

\* normalizeString of an absolute path: `.` dropped, `..` removes the
\* segment before it and is dropped at the root
RECURSIVE NormalizeSegments(_, _)
NormalizeSegments(segs, done) ==
  IF segs = <<>> THEN done
  ELSE IF Head(segs) = <<".">> THEN NormalizeSegments(Tail(segs), done)
  ELSE IF Head(segs) = <<".", ".">>
       THEN NormalizeSegments(Tail(segs),
                              IF done = <<>> THEN done
                              ELSE SubSeq(done, 1, Len(done) - 1))
       ELSE NormalizeSegments(Tail(segs), Append(done, Head(segs)))

IsAbsolute(p) == Len(p) > 0 /\ p[1] = "/"

\* the normalized segments of path.resolve(base, p) under process.cwd() = dir
ResolveSegments(dir, base, p) ==
  NormalizeSegments(
    IF IsAbsolute(p) THEN Segments(p, <<>>)
    ELSE IF IsAbsolute(base) THEN Segments(base, <<>>) \o Segments(p, <<>>)
    ELSE Segments(dir, <<>>) \o Segments(base, <<>>) \o Segments(p, <<>>),
    <<>>)

RECURSIVE JoinSegments(_)
JoinSegments(segs) ==
  IF segs = <<>> THEN <<>>
  ELSE IF Len(segs) = 1 THEN Head(segs)
  ELSE Head(segs) \o <<"/">> \o JoinSegments(Tail(segs))

\* path.resolve(base, p)
PathResolve(dir, base, p) == <<"/">> \o JoinSegments(ResolveSegments(dir, base, p))

\* length of the longest common prefix of two segment lists
RECURSIVE CommonPrefix(_, _)
CommonPrefix(xs, ys) ==
  IF xs = <<>> \/ ys = <<>> \/ Head(xs) # Head(ys) THEN 0
  ELSE 1 + CommonPrefix(Tail(xs), Tail(ys))

\* path.relative(base, p)
PathRelative(dir, base, p) ==
  LET fromSegs == ResolveSegments(dir, <<>>, base)
      toSegs == ResolveSegments(dir, <<>>, p)
      common == CommonPrefix(fromSegs, toSegs)
      ups == [n \in 1..(Len(fromSegs) - common) |-> <<".", ".">>]
  IN  JoinSegments(ups \o SubSeq(toSegs, common + 1, Len(toSegs)))

\* path.dirname(p)
PathDirname(p) ==
  LET ends == {n \in 2..Len(p) :
                 p[n] = "/" /\ \E m \in (n + 1)..Len(p) : p[m] # "/"}
      end == CHOOSE n \in ends : \A m \in ends : m <= n
  IN  IF p = <<>> THEN <<".">>
      ELSE IF ends = {} THEN (IF IsAbsolute(p) THEN <<"/">> ELSE <<".">>)
      ELSE IF IsAbsolute(p) /\ end = 2 THEN <<"/", "/">>
      ELSE SubSeq(p, 1, end - 1)

\* file.indexOf('<') === 0
StartsWithMarker(p) == Len(p) > 0 /\ p[1] = "<"

\* /^\w+:\/\//.test(file)
HasScheme(p) ==
  \E n \in 1..Len(p) :
    /\ \A m \in 1..n : p[m] \in WordChars
    /\ Len(p) >= n + 3
    /\ p[n + 1] = ":"
    /\ p[n + 2] = "/"
    /\ p[n + 3] = "/"

\* result.replace(/\\/g, '/')
BackslashesToSlashes(p) == [n \in 1..Len(p) |-> IF p[n] = "\\" THEN "/" ELSE p[n]]

\* getSourceMapRelativePath(file, from)
getSourceMapRelativePath(dir, p, base) ==
  IF StartsWithMarker(p) THEN p
  ELSE IF HasScheme(p) THEN p
  ELSE LET result == PathRelative(dir, base, p)
       IN  IF Sep = "\\" THEN BackslashesToSlashes(result) ELSE result

\* getSourceMapAbsolutePath(file, to), for a `to` that is given
getSourceMapAbsolutePath(dir, p, target) ==
  IF StartsWithMarker(p) THEN p
  ELSE IF HasScheme(p) THEN p
  ELSE LET dirname == PathDirname(target)
           result == PathResolve(dir, dirname, p)
       IN  IF Sep = "\\" THEN BackslashesToSlashes(result) ELSE result

EntryPaths == SeqsUpTo(PathChars, MaxPathLen)

BaseDirs == {<<"/">>, <<"/", "a">>, <<"a">>, <<".">>, <<".", ".">>}

WorkingDirs == {<<"/">>, <<"/", "a">>}

\* a file located directly in the directory
FileIn(base) ==
  IF base[Len(base)] = "/" THEN base \o <<"a">> ELSE base \o <<"/", "a">>

\* the entry is made relative to the base directory
RebaseRelative ==
  /\ step = "relative"
  /\ relativePath' = getSourceMapRelativePath(cwd, entryPath, baseDir)
  /\ step' = "absolute"
  /\ UNCHANGED <<entryPath, baseDir, targetFile, cwd, absolutePath,
                 processEnv, loaderVars, normVars>>

\* the relative entry is made absolute against the target file
RebaseAbsolute ==
  /\ step = "absolute"
  /\ absolutePath' = getSourceMapAbsolutePath(cwd, relativePath, targetFile)
  /\ step' = "done"
  /\ UNCHANGED <<entryPath, baseDir, targetFile, cwd, relativePath,
                 processEnv, loaderVars, normVars>>

-----------------------------------------------------------------------------
\* Specifications

\* no normalization is going on
NormIdle ==
  /\ plugins = <<>>
  /\ disabledPlugins = <<>>
  /\ resolver = <<>>
  /\ normalized = <<>>
  /\ phase = "idle"

\* no path is being rebased
PathIdle ==
  /\ entryPath = <<>>
  /\ baseDir = <<>>
  /\ targetFile = <<>>
  /\ cwd = <<>>
  /\ relativePath = <<>>
  /\ absolutePath = <<>>
  /\ step = "idle"

InitCommon ==
  /\ processEnv \in ProcessEnvValues
  /\ asyncCalled = [i \in Procs |-> FALSE]
  /\ cb = [i \in Procs |-> <<>>]
  /\ rejected = [i \in Procs |-> "none"]
  /\ calls = [i \in Procs |-> <<>>]
  /\ cfgOutcome = [i \in Procs |-> "none"]
  /\ loadedConfig = [i \in Procs |-> NoConfig]
  /\ envRead = [i \in Procs |-> NotCalled]
  /\ patchedEnv = [i \in Procs |-> NotCalled]
  /\ messages = [i \in Procs |-> <<>>]
  /\ warnings = [i \in Procs |-> 0]

\* one loader invocation (invocation 1); the loaders build a context without
\* an `env` key
Init ==
  /\ InitCommon
  /\ NormIdle
  /\ PathIdle
  /\ pc = [i \in Procs |-> IF i = 1 THEN "start" ELSE "idle"]
  /\ variant \in [Procs -> Variants]
  /\ \A i \in Procs : i # 1 => variant[i] = "main"
  /\ ctxEnv = [i \in Procs |-> NoKey]

Next ==
  \E i \in Procs :
    \/ LoaderStart(i)
    \/ LoadConfigStat(i)
    \/ LoadConfigSearch(i)
    \/ LoaderConfigFailed(i)
    \/ LoaderOptions(i)
    \/ LoaderPrepare(i)
    \/ LoaderEngineFailed(i)
    \/ LoaderEngineDone(i)

Spec == Init /\ [][Next]_vars

\* concurrent calls of loadConfig with caller-supplied contexts
InitEnv ==
  /\ InitCommon
  /\ NormIdle
  /\ PathIdle
  /\ pc = [i \in Procs |-> "stat"]
  /\ variant = [i \in Procs |-> "main"]
  /\ ctxEnv \in [Procs -> CtxEnvValues]

NextEnv ==
  \E i \in Procs :
    \/ LoadConfigStat(i)
    \/ LoadConfigSearch(i)

SpecEnv == InitEnv /\ [][NextEnv]_vars

\* the loader does nothing
LoaderIdle ==
  /\ processEnv = Undefined
  /\ pc = [i \in Procs |-> "idle"]
  /\ variant = [i \in Procs |-> "main"]
  /\ ctxEnv = [i \in Procs |-> NoKey]
  /\ asyncCalled = [i \in Procs |-> FALSE]
  /\ cb = [i \in Procs |-> <<>>]
  /\ rejected = [i \in Procs |-> "none"]
  /\ calls = [i \in Procs |-> <<>>]
  /\ cfgOutcome = [i \in Procs |-> "none"]
  /\ loadedConfig = [i \in Procs |-> NoConfig]
  /\ envRead = [i \in Procs |-> NotCalled]
  /\ patchedEnv = [i \in Procs |-> NotCalled]
  /\ messages = [i \in Procs |-> <<>>]
  /\ warnings = [i \in Procs |-> 0]

\* one call of getArrayPlugins on every plugin spec, resolver and
\* disabledPlugins argument
InitNorm ==
  /\ LoaderIdle
  /\ PathIdle
  /\ plugins \in PluginSpecs
  /\ resolver \in Resolvers
  /\ disabledPlugins \in DisabledArguments
  /\ normalized = <<>>
  /\ phase = "call"

NextNorm == GetArrayPlugins

SpecNorm == InitNorm /\ [][NextNorm]_vars

\* every entry path rebased from every base directory to a file in it
InitPath ==
  /\ LoaderIdle
  /\ NormIdle
  /\ entryPath \in EntryPaths
  /\ baseDir \in BaseDirs
  /\ targetFile = FileIn(baseDir)
  /\ cwd \in WorkingDirs
  /\ relativePath = <<>>
  /\ absolutePath = <<>>
  /\ step = "relative"

NextPath == RebaseRelative \/ RebaseAbsolute

SpecPath == InitPath /\ [][NextPath]_vars

-----------------------------------------------------------------------------
\* Properties of the loader

Done(i) == pc[i] = "done" /\ asyncCalled[i]

Succeeded(i) == pc[i] = "done" /\ cb[i] = <<CallbackSuccess>>

\* C1: every invocation that obtained the async callback calls it exactly
\* once: with (error, no result) when something failed and no error escapes
\* the invocation uncaught, with (null, css, map, meta) otherwise.
C1_CallbackExactlyOnce ==
  \A i \in Procs :
    /\ Len(cb[i]) <= 1
    /\ Done(i) =>
         /\ Len(cb[i]) = 1
         /\ rejected[i] = "none"
         /\ cb[i][1] = CallbackSuccess \/ cb[i][1].result = "none"

ConfigErrors == {"NoConfigFound", "ConfigLoadError"}

ConfigNotFatal(i) ==
  /\ rejected[i] \notin ConfigErrors
  /\ \A k \in 1..Len(cb[i]) : cb[i][k].err \notin ConfigErrors
  /\ pc[i] # "configThrown"
  /\ loadedConfig[i] = EmptyConfig
  /\ \A k \in 1..Len(calls[i]) : calls[i][k] # AddDependency(ConfigFile)

\* C4 as stated: whenever there is no config source at the anchor (nothing
\* at the anchor, or nothing found by the load / search), loadConfig returns
\* the empty config, raises nothing and registers nothing.
C4_AbsenceNeverFatal ==
  \A i \in Procs :
    cfgOutcome[i] \in {"statFailed", "notFound"} => ConfigNotFatal(i)

\* C4 amended: when the anchor can be stat'ed and the load / search returns
\* no result, loadConfig returns the empty config without an error, without
\* building a context and without registering a dependency, and the loader
\* goes on to its options step; when the anchor cannot be stat'ed,
\* loadConfig raises "No PostCSS Config found" and the loader completes with
\* that error as its only callback.
C4_AbsentResultNotFatal ==
  \A i \in Procs :
    /\ cfgOutcome[i] = "notFound" =>
         /\ ConfigNotFatal(i)
         /\ patchedEnv[i] = NotCalled
         /\ pc[i] \in {"configReturned", "options", "engine", "done"}
    /\ cfgOutcome[i] = "statFailed" =>
         /\ pc[i] \in {"configThrown", "done"}
         /\ pc[i] = "configThrown" => rejected[i] = "NoConfigFound"
         /\ pc[i] = "done" => cb[i] = <<CallbackError("NoConfigFound")>>

C4_Witness ==
  \E i \in Procs :
    cfgOutcome[i] = "notFound" /\ pc[i] = "engine" /\ calls[i] = <<>>

\* the calls the messages of a successful engine call stand for
Triggers(message, v) ==
  IF v = "legacy" THEN message.type = "dependency"
  ELSE \/ message.type \in DependencyTypes
       \/ /\ message.type = "asset"
          /\ message.content \notin {Undefined, ""}
          /\ message.file \notin {Undefined, ""}

CapabilityOf(type) ==
  CASE type = "dependency" -> "addDependency"
    [] type = "build-dependency" -> "addBuildDependency"
    [] type = "missing-dependency" -> "addMissingDependency"
    [] type = "context-dependency" -> "addContextDependency"
    [] type = "asset" -> "emitFile"

ImageOf(msgs, v) ==
  LET Keep(m) == Triggers(m, v)
      kept == SelectSeq(msgs, Keep)
  IN  [k \in 1..Len(kept) |->
         IF kept[k].type = "asset"
         THEN [cap |-> "emitFile", file |-> kept[k].file,
               content |-> kept[k].content, sourceMap |-> kept[k].sourceMap,
               info |-> kept[k].info]
         ELSE [cap |-> CapabilityOf(kept[k].type), file |-> kept[k].file,
               content |-> "-", sourceMap |-> "-", info |-> "-"]]

\* the calls made before the messages are walked
CallsBeforeMessages(i) ==
  (IF loadedConfig[i].file = ConfigFile THEN <<AddDependency(ConfigFile)>>
   ELSE <<>>)
  \o [k \in 1..warnings[i] |->
        [cap |-> "emitWarning", file |-> "-", content |-> "-",
         sourceMap |-> "-", info |-> "-"]]

\* C7 as stated: for every loader, the calls made for result.messages are
\* the in-order image of the messages under the full message table.
C7_MessagesDispatchedByType ==
  \A i \in Procs :
    Succeeded(i) =>
      calls[i] = CallsBeforeMessages(i) \o ImageOf(messages[i], "main")

\* C7 amended: in the loader of src/src/index.js the calls made for
\* result.messages are the in-order image of the messages under the full
\* table (the four dependency kinds, emit-file for an asset with content and
\* file, nothing else); the earlier loader calls add-dependency for each
\* `dependency` message and makes no call for any other message.
C7_MessagesDispatchedPerLoader ==
  \A i \in Procs :
    Succeeded(i) =>
      calls[i] = CallsBeforeMessages(i) \o ImageOf(messages[i], variant[i])

C7_Witness ==
  \E i \in Procs :
    /\ Succeeded(i)
    /\ variant[i] = "main"
    /\ messages[i] = <<Msg("asset", "out.png", "data"),
                       Msg("asset", Undefined, "data")>>
    /\ Len(calls[i]) = 1
    /\ calls[i][1].cap = "emitFile"

\* C5: the context createContext returns carries the caller's env if given,
\* else the process-wide value, else 'development', never an undefined one;
\* when the fallback was used the process-wide value equals the context's.
C5_ContextEnvDefined ==
  \A i \in Procs :
    patchedEnv[i] # NotCalled =>
      LET given == ctxEnv[i] \notin {NoKey, Undefined}
          expected == IF given THEN ctxEnv[i]
                      ELSE IF envRead[i] # Undefined THEN envRead[i]
                      ELSE "development"
      IN  /\ patchedEnv[i] = expected
          /\ patchedEnv[i] # Undefined
          /\ (~given /\ envRead[i] = Undefined) => processEnv = patchedEnv[i]

\* C10: the process-wide value is written only while it is absent: once it
\* has a value no step of any invocation changes it.
C10_EnvWrittenOnlyWhenAbsent ==
  [][processEnv # Undefined => processEnv' = processEnv]_vars

-----------------------------------------------------------------------------
\* Properties of the plugin normalizer

Range(seq) == {seq[n] : n \in 1..Len(seq)}

\* the out element is a plugin of that name
IsPluginNamed(v, name) == v.k = "function" /\ v.name = name

\* C2: when a normalization returns, no name in its disabled set (as given,
\* or disabled by a `false` entry during the call) has been loaded or names
\* a plugin of the output.
C2_DisabledNeverLoaded ==
  (phase = "returned" /\ disabledPlugins.given /\ normalized.ok) =>
    \A name \in Range(disabledPlugins.names) :
      /\ name \notin Range(normalized.loaded)
      /\ \A n \in 1..Len(normalized.out) :
           ~IsPluginNamed(normalized.out[n], name)

EnabledEntries(spec) ==
  LET Enabled(entry) == entry[2].k # "false"
  IN  SelectSeq(spec.ents, Enabled)

\* the value an enabled entry loads to: resolve(name)(options), or
\* resolve(name) itself when the options are null, undefined or empty
LoadedValue(entry) ==
  IF NoOptions(entry[2]) THEN Require(entry[1])
  ELSE CallFn(Require(entry[1]), entry[2]).v

RECURSIVE Concat(_)
Concat(seqs) == IF seqs = <<>> THEN <<>> ELSE Head(seqs) \o Concat(Tail(seqs))

\* what a loaded value contributes to the output
RECURSIVE Contribution(_, _)
Contribution(v, depth) ==
  IF depth = 0 THEN <<>>
  ELSE IF v.k = "function" /\ v.tagged THEN <<v>>
  ELSE IF v.k = "function" THEN
    LET result == CallFn(v, Undef).v
    IN  IF result.k = "array" THEN result.items ELSE <<result>>
  ELSE IF v.k = "object" THEN
    LET enabled == EnabledEntries(v)
    IN  Concat([n \in 1..Len(enabled) |->
                  Contribution(LoadedValue(enabled[n]), depth - 1)])
  ELSE <<>>

\* C3 as stated: a NamedMap yields, in entry order, exactly one element per
\* entry that is not false: the value the entry loads to.
C3_OneLoadedValuePerEntry ==
  (phase = "returned" /\ plugins.k = "object" /\ normalized.ok) =>
    LET enabled == EnabledEntries(plugins)
    IN  normalized.out = [n \in 1..Len(enabled) |-> LoadedValue(enabled[n])]

\* C3 amended: a NamedMap yields nothing for its false entries and, for the
\* other entries in entry order, what the loaded value (resolve(name)(options),
\* or resolve(name) unmodified for null, undefined or empty options)
\* contributes: a callable carrying the engine's version tag contributes
\* itself; any other callable is called without arguments and contributes
\* what it returns (every element of a returned list); a loaded object is
\* normalized as a NamedMap in turn.
C3_LoadedValuesContribute ==
  (phase = "returned" /\ plugins.k = "object" /\ normalized.ok) =>
    normalized.out = Contribution(plugins, MaxDepth)

C3_Witness ==
  /\ phase = "returned"
  /\ plugins = Obj(<<<<"a", Options1>>, <<"b", False>>>>)
  /\ resolver["a"] = Creator("a")
  /\ normalized.ok
  /\ normalized.out = <<Instance("a", Options1)>>
  /\ normalized.loaded = <<"a">>

IsDisabledPair(v) ==
  /\ v.k = "array"
  /\ Len(v.items) = 2
  /\ v.items[1].k = "string"
  /\ v.items[2].k = "false"

\* an array spec with every [name, false] pair written as { name: false }
PairsAsMaps(spec) ==
  Arr([n \in 1..Len(spec.items) |->
         IF IsDisabledPair(spec.items[n])
         THEN Obj(<<<<spec.items[n].items[1].s, False>>>>)
         ELSE spec.items[n]])

\* C8: a [name, false] pair in an array spec does what the NamedMap entry
\* name -> false does: nothing is loaded or emitted for it and the name is
\* recorded in the disabled set, so a normalization that returns has the
\* outcome it has with the pair written as that entry.
C8_PairFalseDisables ==
  (/\ phase = "returned"
   /\ normalized.ok
   /\ disabledPlugins.given
   /\ plugins.k = "array"
   /\ \E n \in 1..Len(plugins.items) : IsDisabledPair(plugins.items[n])) =>
    LET asMaps == getArrayPlugins(PairsAsMaps(plugins),
                                  InitialState(normalized.disabledAtCall),
                                  MaxDepth)
    IN  /\ asMaps.ok
        /\ normalized.out = asMaps.out
        /\ normalized.loaded = asMaps.st.loaded
        /\ disabledPlugins.names = asMaps.st.disabled

\* C9: every normalization ends, without exhausting the call stack, and
\* what it returns is a flat sequence of instantiated plugins.
C9_FlatSequenceOfInstances ==
  phase = "returned" =>
    /\ normalized.err # "RangeError"
    /\ normalized.ok =>
         \A n \in 1..Len(normalized.out) : isPostcssPlugin(normalized.out[n])

-----------------------------------------------------------------------------
\* Properties of the path rebasing

\* two paths name the same file
SamePath(p, q) == PathResolve(cwd, <<>>, p) = PathResolve(cwd, <<>>, q)

\* C6: an entry path that neither begins with `<` nor has a scheme:// prefix
\* comes back, from relative to absolute against a file of the base directory,
\* as a path naming the same file.
C6_RoundTrip ==
  (step = "done" /\ ~StartsWithMarker(entryPath) /\ ~HasScheme(entryPath)) =>
    SamePath(absolutePath, entryPath)

====
